---------------------------- MODULE Spec2Model ----------------------------
(***************************************************************************)
(* Model of the Dreamcast controller driver (button-combo callback         *)
(* registry, GETCOND reply handler, polling) and of the VMU package codec. *)
(*                                                                         *)
(*   kernel/arch/dreamcast/hardware/maple/controller.c                     *)
(*   kernel/arch/dreamcast/util/vmu_pkg.c                                  *)
(***************************************************************************)
EXTENDS Integers, Sequences, FiniteSets, TLC

(***************************************************************************)
(* Bounds of the model.                                                    *)
(***************************************************************************)
\* Number of registrations (and workers) ever created by cont_btn_callback.
MaxRegs == 2

\* Application threads calling the public API concurrently.
Callers == {1, 2}

\* Attached controllers, as <<port, unit>>.
Devices == {<<0, 0>>, <<1, 0>>}

\* Arguments applications pass to cont_btn_callback.
InstallAddrs == {0, 32}
InstallBtns == {1, 3}
Sinks == {"cbA", "cbB"}

\* What malloc() may have left in the fields cont_btn_callback never sets.
Garbage == {255}

\* Raw condition records delivered by the bus (buttons are active-low):
\* button 0 pressed, buttons 0 and 1 pressed.
RawConds ==
    { [buttons |-> 65534, rtrig |-> 255, ltrig |-> 7, joyx |-> 0, joyy |-> 255,
       joy2x |-> 128, joy2y |-> 127],
      [buttons |-> 65532, rtrig |-> 0, ltrig |-> 0, joyx |-> 128, joyy |-> 129,
       joy2x |-> 1, joy2y |-> 200] }

(***************************************************************************)
(* Values.                                                                 *)
(***************************************************************************)
NULL == "NULL"
RegIds == 1..MaxRegs

\* A sink that calls cont_btn_callback once and returns.
ReentrantSink == "cbR"

\* The thread of the worker of registration id, and all the threads there are.
WorkerThread(id) == Cardinality(Callers) + id
Threads == Callers \cup {WorkerThread(id) : id \in RegIds}

MAPLE_RESPONSE_DATATRF == "DATATRF"
MAPLE_FUNC_CONTROLLER == "FUNC_CONTROLLER"

\* Responses the transport may hand to cont_reply: condition responses, and
\* responses that are not (another kind, another function, no device).
AllPressed == [buttons |-> 65532, rtrig |-> 0, ltrig |-> 0, joyx |-> 128, joyy |-> 129,
               joy2x |-> 1, joy2y |-> 200]

CondResponses ==
    [response : {MAPLE_RESPONSE_DATATRF}, func : {MAPLE_FUNC_CONTROLLER},
     has_dev : {TRUE}, raw : RawConds]

\* What the receive buffer holds where a condition record would be when the
\* response is not a condition response.
Leftover == [buttons |-> 65531, rtrig |-> 9, ltrig |-> 9, joyx |-> 9, joyy |-> 9,
             joy2x |-> 9, joy2y |-> 9]

Responses ==
    CondResponses \cup
    { [response |-> "AGAIN", func |-> MAPLE_FUNC_CONTROLLER, has_dev |-> TRUE,
       raw |-> Leftover],
      [response |-> MAPLE_RESPONSE_DATATRF, func |-> "FUNC_MEMCARD", has_dev |-> TRUE,
       raw |-> Leftover],
      [response |-> MAPLE_RESPONSE_DATATRF, func |-> MAPLE_FUNC_CONTROLLER,
       has_dev |-> FALSE, raw |-> Leftover] }

\* C's & on two's-complement integers, for b >= 0.
RECURSIVE BitAnd(_, _)
BitAnd(a, b) ==
    IF a = 0 \/ b = 0 THEN 0
    ELSE (a % 2) * (b % 2) + 2 * BitAnd(a \div 2, b \div 2)

\* C's ~ on a two's-complement int.
BitNot(a) == 0 - a - 1

\* maple_addr(port, unit) of dc/maple.h.
maple_addr(port, unit) ==
    (port % 4) * 64 + (IF unit > 0 THEN 2 ^ (unit - 1) ELSE 32)

DevAddr(d) == maple_addr(d[1], d[2])

(***************************************************************************)
(* State of the controller driver.                                         *)
(***************************************************************************)
VARIABLES
    btn_cbs,        \* the TAILQ of registrations, as a sequence of RegIds
    btn_cbs_mtx,    \* owner of the registry mutex, 0 when free
    regs,           \* RegIds -> cont_callback_params_t, or NoReg / Freed
    workers,        \* RegIds -> the registration's kthread_worker_t
    next_id,        \* next registration to be allocated
    sink_args,      \* RegIds -> arguments of the sink invocation in progress
    pc,             \* Threads -> position in the API call being executed
    params,         \* Threads -> params of the call being executed
    idx,            \* Threads -> cursor of TAILQ_FOREACH_SAFE in cont_btn_callback_del
    victim,         \* Threads -> registration being destroyed, 0 if none
    ret,            \* Threads -> outcome of the call that just finished
    frame_locked,   \* Devices -> the device's frame is locked (request in flight)
    queued,         \* Devices -> GETCOND frames queued and not yet answered
    status,         \* Devices -> cont_state_t published for the device
    status_valid,   \* Devices -> dev->status_valid
    del_snap        \* the list as cont_btn_callback_del found it when it took the lock

contVars == <<btn_cbs, btn_cbs_mtx, regs, workers, next_id, sink_args, pc, params,
              idx, victim, ret, frame_locked, queued, status, status_valid,
              del_snap>>

NoReg == [state |-> "none"]
Freed == [state |-> "freed"]
NoWorker == [state |-> "none", pending |-> FALSE, quit |-> FALSE]
NoArgs == <<>>
NullParams == [null |-> TRUE]

Live(id) == regs[id].state = "live"

ContInit ==
    /\ btn_cbs = <<>>
    /\ btn_cbs_mtx = 0
    /\ regs = [id \in RegIds |-> NoReg]
    /\ workers = [id \in RegIds |-> NoWorker]
    /\ next_id = 1
    /\ sink_args = [id \in RegIds |-> NoArgs]
    /\ pc = [t \in Threads |-> "idle"]
    /\ params = [t \in Threads |-> NullParams]
    /\ idx = [t \in Threads |-> 0]
    /\ victim = [t \in Threads |-> 0]
    /\ ret = [t \in Threads |-> "none"]
    /\ frame_locked = [d \in Devices |-> FALSE]
    /\ queued = [d \in Devices |-> 0]
    /\ status = [d \in Devices |-> [buttons |-> 0, ltrig |-> 0, rtrig |-> 0,
                                    joyx |-> 0, joyy |-> 0, joy2x |-> 0, joy2y |-> 0]]
    /\ status_valid = [d \in Devices |-> FALSE]
    /\ del_snap = <<>>


(***************************************************************************)
(* kos/worker_thread.h: a worker sleeps until woken, runs its routine      *)
(* once per wake-up (wake-ups do not queue), and is joined by destroy.     *)
(***************************************************************************)
thd_worker_create_ex == [state |-> "waiting", pending |-> FALSE, quit |-> FALSE]

thd_worker_wakeup(w) == [w EXCEPT !.pending = TRUE]

\* thd_worker_destroy, first half: ask the worker to quit and wake it.
thd_worker_quit(w) == [w EXCEPT !.quit = TRUE]

\* thd_worker_destroy, second half: the join has returned, the worker is freed.
thd_worker_joined(w) == [w EXCEPT !.state = "destroyed"]

(***************************************************************************)
(* cont_btn_cb_thread: the routine every worker runs; the value is the     *)
(* argument pair handed to the sink.                                       *)
(***************************************************************************)
cont_btn_cb_thread(p) == <<p.addr, p.btns>>

\* WorkerRun that leaves the wake-up pending.
WorkerRunKeepsPending(id) ==
    /\ workers[id].state = "waiting"
    /\ workers[id].pending
    /\ ~workers[id].quit
    /\ workers' = [workers EXCEPT ![id].state = "running"]
    /\ sink_args' = [sink_args EXCEPT ![id] = cont_btn_cb_thread(regs[id])]
    /\ UNCHANGED <<btn_cbs, btn_cbs_mtx, regs, next_id, pc, params, idx, victim, ret,
                   frame_locked, queued, status, status_valid, del_snap>>

\* The worker of registration id wakes up and runs its routine.
WorkerRun(id) ==
    /\ workers[id].state = "waiting"
    /\ workers[id].pending
    /\ ~workers[id].quit
    /\ workers' = [workers EXCEPT ![id].state = "running", ![id].pending = FALSE]
    /\ sink_args' = [sink_args EXCEPT ![id] = cont_btn_cb_thread(regs[id])]
    /\ UNCHANGED <<btn_cbs, btn_cbs_mtx, regs, next_id, pc, params, idx, victim, ret,
                   frame_locked, queued, status, status_valid, del_snap>>

\* The sink returns, the re-entrant one once the call it makes has returned;
\* the worker goes back to sleep.
WorkerDone(id) ==
    /\ workers[id].state = "running"
    /\ pc[WorkerThread(id)] = (IF regs[id].cb = ReentrantSink THEN "done" ELSE "idle")
    /\ workers' = [workers EXCEPT ![id].state = "waiting"]
    /\ sink_args' = [sink_args EXCEPT ![id] = NoArgs]
    /\ pc' = [pc EXCEPT ![WorkerThread(id)] = "idle"]
    /\ ret' = [ret EXCEPT ![WorkerThread(id)] = "none"]
    /\ params' = [params EXCEPT ![WorkerThread(id)] = NullParams]
    /\ UNCHANGED <<btn_cbs, btn_cbs_mtx, regs, next_id, idx, victim,
                   frame_locked, queued, status, status_valid, del_snap>>

\* A worker asked to quit leaves its loop.
WorkerExit(id) ==
    /\ workers[id].state = "waiting"
    /\ workers[id].quit
    /\ workers' = [workers EXCEPT ![id].state = "exited"]
    /\ UNCHANGED <<btn_cbs, btn_cbs_mtx, regs, next_id, sink_args, pc, params, idx, victim,
                   ret, frame_locked, queued, status, status_valid, del_snap>>

(***************************************************************************)
(* cont_btn_callback_del                                                   *)
(***************************************************************************)
\* DelMatch with address 0 taken for a wildcard, as the scan takes it.
DelMatchWildcard(p, c) ==
    /\ (p.null \/ ((p.addr = 0 \/ p.addr = c.addr) /\ p.btns = c.btns))
    /\ (p.null \/ p.cb = NULL \/ p.cb = c.cb)

\* DelMatch without the "params == NULL" alternatives.
DelMatchNoNull(p, c) ==
    /\ ~p.null
    /\ p.addr = c.addr /\ p.btns = c.btns
    /\ (p.cb = NULL \/ p.cb = c.cb)

\* The two nested conditions that select the entries to delete.
DelMatch(p, c) ==
    /\ (p.null \/ (p.addr = c.addr /\ p.btns = c.btns))
    /\ (p.null \/ p.cb = NULL \/ p.cb = c.cb)

Snapshot(list) == [i \in 1..Len(list) |->
    [id |-> list[i], addr |-> regs[list[i]].addr, btns |-> regs[list[i]].btns,
     cb |-> regs[list[i]].cb]]

\* DelLock that walks the list without taking the mutex.
DelLockNoMutex(t) ==
    /\ pc[t] = "del_lock"
    /\ idx' = [idx EXCEPT ![t] = 1]
    /\ pc' = [pc EXCEPT ![t] = "del_loop"]
    /\ del_snap' = Snapshot(btn_cbs)
    /\ UNCHANGED <<btn_cbs, btn_cbs_mtx, regs, workers, next_id, sink_args, params,
                   victim, ret, frame_locked, queued, status, status_valid>>

\* mutex_lock(&btn_cbs_mtx): blocks while another thread owns the mutex.
DelLock(t) ==
    /\ pc[t] = "del_lock"
    /\ btn_cbs_mtx = 0
    /\ btn_cbs_mtx' = t
    /\ idx' = [idx EXCEPT ![t] = 1]
    /\ pc' = [pc EXCEPT ![t] = "del_loop"]
    /\ del_snap' = Snapshot(btn_cbs)
    /\ UNCHANGED <<btn_cbs, regs, workers, next_id, sink_args, params, victim, ret,
                   frame_locked, queued, status, status_valid>>

\* One iteration of TAILQ_FOREACH_SAFE up to the call of thd_worker_destroy.
DelStep(t) ==
    /\ pc[t] = "del_loop"
    /\ idx[t] <= Len(btn_cbs)
    /\ LET c == btn_cbs[idx[t]] IN
        IF DelMatch(params[t], regs[c])
        THEN /\ btn_cbs' = [i \in 1..(Len(btn_cbs) - 1) |->
                               IF i < idx[t] THEN btn_cbs[i] ELSE btn_cbs[i + 1]]
             /\ workers' = [workers EXCEPT ![c] = thd_worker_quit(workers[c])]
             /\ victim' = [victim EXCEPT ![t] = c]
             /\ pc' = [pc EXCEPT ![t] = "del_join"]
             /\ UNCHANGED idx
        ELSE /\ idx' = [idx EXCEPT ![t] = idx[t] + 1]
             /\ UNCHANGED <<btn_cbs, workers, victim, pc>>
    /\ UNCHANGED <<btn_cbs_mtx, regs, next_id, sink_args, params, ret,
                   frame_locked, queued, status, status_valid, del_snap>>

\* thd_worker_destroy returns once the worker thread has exited; then free(c).
DelJoin(t) ==
    /\ pc[t] = "del_join"
    /\ workers[victim[t]].state = "exited"
    /\ workers' = [workers EXCEPT ![victim[t]] = thd_worker_joined(workers[victim[t]])]
    /\ regs' = [regs EXCEPT ![victim[t]] = Freed]
    /\ victim' = [victim EXCEPT ![t] = 0]
    /\ pc' = [pc EXCEPT ![t] = "del_loop"]
    /\ UNCHANGED <<btn_cbs, btn_cbs_mtx, next_id, sink_args, params, idx, ret,
                   frame_locked, queued, status, status_valid, del_snap>>

\* End of the loop: mutex_unlock, then the caller's tail: cont_btn_callback frees
\* its params and returns 0, cont_shutdown returns.
DelUnlock(t) ==
    /\ pc[t] = "del_loop"
    /\ idx[t] > Len(btn_cbs)
    /\ btn_cbs_mtx' = 0
    /\ idx' = [idx EXCEPT ![t] = 0]
    /\ ret' = [ret EXCEPT ![t] = IF params[t].null THEN "shutdown" ELSE "ok"]
    /\ pc' = [pc EXCEPT ![t] = "done"]
    /\ del_snap' = <<>>
    /\ UNCHANGED <<btn_cbs, regs, workers, next_id, sink_args, params, victim,
                   frame_locked, queued, status, status_valid>>

\* cont_shutdown: cont_btn_callback_del(NULL), then maple_driver_unreg.
cont_shutdown(t) ==
    /\ pc[t] = "idle"
    /\ params' = [params EXCEPT ![t] = NullParams]
    /\ pc' = [pc EXCEPT ![t] = "del_lock"]
    /\ UNCHANGED <<btn_cbs, btn_cbs_mtx, regs, workers, next_id, sink_args, idx, victim,
                   ret, frame_locked, queued, status, status_valid, del_snap>>

(***************************************************************************)
(* cont_btn_callback                                                       *)
(***************************************************************************)
\* ListInsert that inserts at the tail whatever the address.
ListInsertTail(list, id, addr) == Append(list, id)

\* TAILQ_INSERT_HEAD for a specific address, TAILQ_INSERT_TAIL for address 0.
ListInsert(list, id, addr) ==
    IF addr # 0 THEN <<id>> \o list ELSE Append(list, id)

\* InstallPath without the check of the worker.
InstallPathNoWorkerCheck(cb, malloc_ok, worker_ok) ==
    IF ~malloc_ok THEN "enomem"
    ELSE IF cb = NULL THEN "uninstall"
    ELSE "insert"

\* The checks of cont_btn_callback in their order: malloc failed, a NULL
\* callback asks for the uninstall, the worker could not be created.
InstallPath(cb, malloc_ok, worker_ok) ==
    IF ~malloc_ok THEN "enomem"
    ELSE IF cb = NULL THEN "uninstall"
    ELSE IF ~worker_ok THEN "eworker"
    ELSE "insert"

\* The call up to its first access to shared state: malloc, the fields, the
\* NULL-callback branch, the creation of the worker.  malloc_ok and worker_ok
\* say whether malloc and thd_worker_create_ex succeed.
cont_btn_callback(t, addr, btns, cb, malloc_ok, worker_ok) ==
    /\ pc[t] = "idle"
    /\ \E path \in {InstallPath(cb, malloc_ok, worker_ok)} :
        CASE path = "enomem" ->
                /\ ret' = [ret EXCEPT ![t] = "enomem"]
                /\ pc' = [pc EXCEPT ![t] = "done"]
                /\ UNCHANGED <<regs, workers, next_id, params>>
          [] path = "uninstall" ->
                /\ params' = [params EXCEPT ![t] =
                                [null |-> FALSE, addr |-> addr, btns |-> btns, cb |-> cb,
                                 id |-> 0]]
                /\ pc' = [pc EXCEPT ![t] = "del_lock"]
                /\ UNCHANGED <<regs, workers, next_id, ret>>
          [] path = "eworker" ->
                /\ ret' = [ret EXCEPT ![t] = "eworker"]
                /\ pc' = [pc EXCEPT ![t] = "done"]
                /\ UNCHANGED <<regs, workers, next_id, params>>
          [] path = "insert" ->
                /\ next_id <= MaxRegs
                /\ \E g \in Garbage :
                     regs' = [regs EXCEPT ![next_id] =
                                [state |-> "live", addr |-> addr, btns |-> btns, cb |-> cb,
                                 cur_addr |-> g, cur_btns |-> g]]
                /\ workers' = [workers EXCEPT ![next_id] = thd_worker_create_ex]
                /\ params' = [params EXCEPT ![t] =
                                [null |-> FALSE, addr |-> addr, btns |-> btns, cb |-> cb,
                                 id |-> next_id]]
                /\ next_id' = next_id + 1
                /\ pc' = [pc EXCEPT ![t] = "ins_lock"]
                /\ UNCHANGED ret
    /\ UNCHANGED <<btn_cbs, btn_cbs_mtx, sink_args, idx, victim,
                   frame_locked, queued, status, status_valid, del_snap>>

\* mutex_lock(&btn_cbs_mtx) of the insertion.
InsLock(t) ==
    /\ pc[t] = "ins_lock"
    /\ btn_cbs_mtx = 0
    /\ btn_cbs_mtx' = t
    /\ pc' = [pc EXCEPT ![t] = "ins_insert"]
    /\ UNCHANGED <<btn_cbs, regs, workers, next_id, sink_args, params, idx, victim, ret,
                   frame_locked, queued, status, status_valid, del_snap>>

\* The insertion, mutex_unlock and return 0.
InsInsert(t) ==
    /\ pc[t] = "ins_insert"
    /\ btn_cbs' = ListInsert(btn_cbs, params[t].id, params[t].addr)
    /\ btn_cbs_mtx' = 0
    /\ ret' = [ret EXCEPT ![t] = "ok"]
    /\ pc' = [pc EXCEPT ![t] = "done"]
    /\ UNCHANGED <<regs, workers, next_id, sink_args, params, idx, victim,
                   frame_locked, queued, status, status_valid, del_snap>>

\* The caller has taken the result and may call again.
Return(t) ==
    /\ pc[t] = "done"
    /\ pc' = [pc EXCEPT ![t] = "idle"]
    /\ ret' = [ret EXCEPT ![t] = "none"]
    /\ params' = [params EXCEPT ![t] = NullParams]
    /\ UNCHANGED <<btn_cbs, btn_cbs_mtx, regs, workers, next_id, sink_args, idx, victim,
                   frame_locked, queued, status, status_valid, del_snap>>

\* The re-entrant sink, running in the worker of registration id, calls
\* cont_btn_callback for the pair (0, 1) with callback cb: an install when cb
\* is a sink, an uninstall when it is NULL.
SinkCall(id, cb) ==
    /\ workers[id].state = "running"
    /\ regs[id].cb = ReentrantSink
    /\ cont_btn_callback(WorkerThread(id), 0, 1, cb, TRUE, TRUE)

\* The value the C function returns for an outcome.
RetVal(r) == IF r \in {"ok", "shutdown"} THEN 0 ELSE 0 - 1

(***************************************************************************)
(* cont_reply, cont_poll, cont_periodic                                    *)
(***************************************************************************)
\* Cooked without the "& 0xffff" of the buttons.
CookedUnmasked(raw) ==
    [buttons |-> BitNot(raw.buttons),
     ltrig |-> raw.ltrig,
     rtrig |-> raw.rtrig,
     joyx |-> raw.joyx - 128,
     joyy |-> raw.joyy - 128,
     joy2x |-> raw.joy2x - 128,
     joy2y |-> raw.joy2y - 128]

\* "Fill the nice struct from the raw data".
Cooked(raw) ==
    [buttons |-> BitAnd(BitNot(raw.buttons), 65535),
     ltrig |-> raw.ltrig,
     rtrig |-> raw.rtrig,
     joyx |-> raw.joyx - 128,
     joyy |-> raw.joyy - 128,
     joy2x |-> raw.joy2x - 128,
     joy2y |-> raw.joy2y - 128]

\* ScanMatch satisfied by any one button of the mask.
ScanMatchAnyButton(c, addr, buttons) ==
    /\ (c.addr = 0 \/ (c.addr # 0 /\ c.addr = addr))
    /\ BitAnd(buttons, c.btns) # 0

\* The condition under which the scan wakes the worker of entry c.
ScanMatch(c, addr, buttons) ==
    /\ (c.addr = 0 \/ (c.addr # 0 /\ c.addr = addr))
    /\ BitAnd(buttons, c.btns) = c.btns

InList(id) == \E i \in 1..Len(btn_cbs) : btn_cbs[i] = id

\* A trylock that takes the mutex whoever owns it.
mutex_trylock_always(m) == TRUE

\* mutex_trylock succeeds iff nobody owns the mutex; cont_reply returns at once
\* when it fails (the interrupt handler takes and releases the mutex within
\* its own step, so its ownership is never visible to a thread).
mutex_trylock(m) == m = 0

\* The entries of the list the scan wakes for a response of the device at
\* addr with the given buttons.
Scan(addr, buttons) ==
    {id \in RegIds : InList(id) /\ ScanMatch(regs[id], addr, buttons)}

\* ValidResponse without the check of the function code.
ValidResponseAnyFunc(resp) ==
    /\ resp.response = MAPLE_RESPONSE_DATATRF
    /\ resp.has_dev

\* ValidResponse without the check of the response code.
ValidResponseAnyKind(resp) ==
    /\ resp.func = MAPLE_FUNC_CONTROLLER
    /\ resp.has_dev

\* "Make sure we got a valid response": the three early returns of cont_reply.
ValidResponse(resp) ==
    /\ resp.response = MAPLE_RESPONSE_DATATRF
    /\ resp.func = MAPLE_FUNC_CONTROLLER
    /\ resp.has_dev

\* The GETCOND response callback, run to completion in interrupt context; it
\* is called for a frame that was queued.
cont_reply(d, resp) ==
    /\ queued[d] > 0
    /\ queued' = [queued EXCEPT ![d] = queued[d] - 1]
    /\ frame_locked' = [frame_locked EXCEPT ![d] = FALSE]
    /\ IF ~ValidResponse(resp)
       THEN UNCHANGED <<status, status_valid, regs, workers>>
       ELSE \E cooked \in {Cooked(resp.raw)}, addr \in {DevAddr(d)} :
                /\ status' = [status EXCEPT ![d] = cooked]
                /\ status_valid' = [status_valid EXCEPT ![d] = TRUE]
                /\ IF ~mutex_trylock(btn_cbs_mtx)
                   THEN UNCHANGED <<regs, workers>>
                   ELSE \E hit \in {Scan(addr, cooked.buttons)} :
                        /\ regs' = [id \in RegIds |->
                                     IF id \in hit
                                     THEN [regs[id] EXCEPT !.cur_btns = cooked.buttons,
                                                           !.cur_addr = addr]
                                     ELSE regs[id]]
                        /\ workers' = [id \in RegIds |->
                                     IF id \in hit THEN thd_worker_wakeup(workers[id])
                                     ELSE workers[id]]
    /\ UNCHANGED <<btn_cbs, btn_cbs_mtx, next_id, sink_args, pc, params, idx, victim, ret,
                   del_snap>>

\* maple_frame_lock of dc/maple.h: -1 when the frame is locked already, else
\* the frame is locked and the result is 0.
maple_frame_lock(locked) == IF locked THEN 0 - 1 ELSE 0

\* cont_poll that queues the frame whether it got the lock or not.
cont_poll_nolock(locked, q) == [locked |-> TRUE, queued |-> q + 1]

\* cont_poll for a device whose frame is locked or not and has q frames
\* queued: the frame lock and the number of frames queued afterwards.
cont_poll(locked, q) ==
    IF maple_frame_lock(locked) < 0
    THEN [locked |-> locked, queued |-> q]
    ELSE [locked |-> TRUE, queued |-> q + 1]

\* cont_periodic: maple_driver_foreach(drv, cont_poll).
cont_periodic(D) ==
    /\ frame_locked' = [d \in Devices |->
                          IF d \in D THEN cont_poll(frame_locked[d], queued[d]).locked
                          ELSE frame_locked[d]]
    /\ queued' = [d \in Devices |->
                    IF d \in D THEN cont_poll(frame_locked[d], queued[d]).queued
                    ELSE queued[d]]
    /\ UNCHANGED <<btn_cbs, btn_cbs_mtx, regs, workers, next_id, sink_args, pc, params,
                   idx, victim, ret, status, status_valid, del_snap>>

(***************************************************************************)
(* The VMU package codec: vmu_pkg.c.                                       *)
(*                                                                         *)
(* Memory is a sequence of bytes; the byte at offset o is element o + 1.   *)
(* A C string is the sequence of its characters, terminator not included.  *)
(***************************************************************************)
\* Bounds of the packages built: icons per package, bytes of payload.
MaxIcons == 1
MaxData == 2

\* Eyecatch types of dc/vmu_pkg.h.
VMUPKG_EC_NONE == 0
VMUPKG_EC_16BIT == 1
VMUPKG_EC_256COL == 2
VMUPKG_EC_16COL == 3

\* vmu_hdr_t of dc/vmu_pkg.h: widths of its character fields, offsets of its
\* fields, and its size.
HDR_DESC_SHORT == 16
HDR_DESC_LONG == 32
HDR_APP_ID == 16
OFF_DESC_SHORT == 0
OFF_DESC_LONG == 16
OFF_APP_ID == 48
OFF_ICON_CNT == 64
OFF_ICON_ANIM_SPEED == 66
OFF_EYECATCH_TYPE == 68
OFF_CRC == 70
OFF_DATA_LEN == 72
OFF_ICON_PAL == 96
SIZEOF_VMU_HDR == 128

\* vmu_pkg_t of dc/vmu_pkg.h: sizes of its character arrays and of its palette.
PKG_DESC_SHORT == 20
PKG_DESC_LONG == 36
PKG_APP_ID == 20
PAL_ENTRIES == 16

\* Bytes of one icon frame.
ICON_SIZE == 512

\* memset(buf + off, c, n) and memcpy(buf + off, bytes, Len(bytes)).
Memset(buf, off, c, n) ==
    SubSeq(buf, 1, off) \o [i \in 1..n |-> c] \o SubSeq(buf, off + n + 1, Len(buf))

Memcpy(buf, off, bytes) ==
    SubSeq(buf, 1, off) \o bytes \o SubSeq(buf, off + Len(bytes) + 1, Len(buf))

\* The bytes buf[off .. off + n - 1].
Region(buf, off, n) == SubSeq(buf, off + 1, off + n)

\* Little-endian stores and loads of uint16 and uint32 (the SH-4 is run
\* little-endian); a store keeps the low bits of the value.
Le16(v) == <<v % 256, (v \div 256) % 256>>
Le32(v) == <<v % 256, (v \div 256) % 256, (v \div 65536) % 256, (v \div 16777216) % 256>>
Get16(buf, off) == buf[off + 1] + 256 * buf[off + 2]
Get32(buf, off) ==
    buf[off + 1] + 256 * buf[off + 2] + 65536 * buf[off + 3] + 16777216 * buf[off + 4]

\* An array of uint16 as bytes in memory, and back.
WordsToBytes(w) ==
    SubSeq([i \in 1..(2 * Len(w)) |-> Le16(w[(i + 1) \div 2])[2 - (i % 2)]], 1, 2 * Len(w))
BytesToWords(b) ==
    SubSeq([i \in 1..(Len(b) \div 2) |-> Get16(b, 2 * (i - 1))], 1, Len(b) \div 2)

\* strlen of the string held in the character array a.
strlen(a) ==
    CHOOSE n \in 0..Len(a) : /\ \A i \in 1..n : a[i] # 0
                             /\ (n = Len(a) \/ a[n + 1] = 0)

\* The string held in the character array a.
CStr(a) == SubSeq(a, 1, strlen(a))

\* C's ^ on non-negative integers.
RECURSIVE BitXor(_, _)
BitXor(a, b) ==
    IF a = 0 THEN b
    ELSE IF b = 0 THEN a
    ELSE ((a + b) % 2) + 2 * BitXor(a \div 2, b \div 2)

\* vmu_pkg_crc, lines 30-33: one turn of the loop over the bits.  n is an int,
\* but << and ^ never carry a bit of n downwards and the function returns
\* n & 0xffff, so only bits 0..15 of n are kept.
CrcShift(n) ==
    IF n >= 32768 THEN BitXor((2 * n) % 65536, 4129) ELSE (2 * n) % 65536

\* for (c = 0; c < 8; c++) ...
RECURSIVE CrcBitLoop(_, _)
CrcBitLoop(n, c) == IF c < 8 THEN CrcBitLoop(CrcShift(n), c + 1) ELSE n

\* The loop over the bits, tabulated: CrcBits[n + 1] is n after the loop.
CrcBits == SubSeq([n \in 1..65536 |-> CrcBitLoop(n - 1, 0)], 1, 65536)

\* a ^ b on bytes, tabulated: XorByte[a + 1][b + 1].
XorByte ==
    SubSeq([a \in 1..256 |-> SubSeq([b \in 1..256 |-> BitXor(a - 1, b - 1)], 1, 256)],
           1, 256)

\* The body of the loop over the bytes: n ^= (b << 8), then the loop over the bits.
CrcByte(n, b) == CrcBits[XorByte[(n \div 256) + 1][b + 1] * 256 + (n % 256) + 1]

\* for (i = lo; i <= hi; i++) n = CrcByte(n, buf[i]), from the left to the right.
RECURSIVE CrcLoop(_, _, _, _)
CrcLoop(buf, n, i, hi) ==
    IF i > hi THEN n ELSE CrcLoop(buf, CrcByte(n, buf[i]), i + 1, hi)

\* The same loop, split in two halves so that no evaluation nests deeply.
RECURSIVE CrcRange(_, _, _, _)
CrcRange(buf, n, lo, hi) ==
    IF hi - lo < 16 THEN CrcLoop(buf, n, lo, hi)
    ELSE LET mid == (lo + hi) \div 2
         IN CHOOSE r \in {CrcRange(buf, l, mid + 1, hi) :
                              l \in {CrcRange(buf, n, lo, mid)}} : TRUE

\* vmu_pkg_crc with a loop that stops one byte early.
vmu_pkg_crc_short(buf, size) == CrcRange(buf, 0, 1, size - 1)

\* vmu_pkg_crc(buf, size).
vmu_pkg_crc(buf, size) == CrcRange(buf, 0, 1, size)

\* vmu_eyecatch_size whose default case guesses an empty eyecatch.
vmu_eyecatch_size_guess(eyecatch_type) ==
    CASE eyecatch_type = VMUPKG_EC_NONE -> 0
      [] eyecatch_type = VMUPKG_EC_16BIT -> 72 * 56 * 2
      [] eyecatch_type = VMUPKG_EC_256COL -> 512 + 72 * 56
      [] eyecatch_type = VMUPKG_EC_16COL -> 32 + (72 * 56) \div 2
      [] OTHER -> 0

\* vmu_eyecatch_size with a 16-color bitmap of one byte per pixel.
vmu_eyecatch_size_bytes(eyecatch_type) ==
    CASE eyecatch_type = VMUPKG_EC_NONE -> 0
      [] eyecatch_type = VMUPKG_EC_16BIT -> 72 * 56 * 2
      [] eyecatch_type = VMUPKG_EC_256COL -> 512 + 72 * 56
      [] eyecatch_type = VMUPKG_EC_16COL -> 32 + 72 * 56
      [] OTHER -> 0 - 1

\* vmu_eyecatch_size(eyecatch_type).
vmu_eyecatch_size(eyecatch_type) ==
    CASE eyecatch_type = VMUPKG_EC_NONE -> 0
      [] eyecatch_type = VMUPKG_EC_16BIT -> 72 * 56 * 2
      [] eyecatch_type = VMUPKG_EC_256COL -> 512 + 72 * 56
      [] eyecatch_type = VMUPKG_EC_16COL -> 32 + (72 * 56) \div 2
      [] OTHER -> 0 - 1

\* vmu_pkg_build past its check of the eyecatch type: the bytes of *dst.
BuildBytes(v, ec_size) ==
    LET out_size == SIZEOF_VMU_HDR + ICON_SIZE * v.icon_cnt + v.data_len + ec_size
        zeroed == [i \in 1..out_size |-> 0]
        spaces == Memset(Memset(zeroed, OFF_DESC_SHORT, 32, HDR_DESC_SHORT),
                         OFF_DESC_LONG, 32, HDR_DESC_LONG)
        descs == Memcpy(Memcpy(spaces, OFF_DESC_SHORT, v.desc_short),
                        OFF_DESC_LONG, v.desc_long)
        app == Memcpy(descs, OFF_APP_ID, v.app_id \o <<0>>)
        counts == Memcpy(Memcpy(Memcpy(app, OFF_ICON_CNT, Le16(v.icon_cnt)),
                                OFF_ICON_ANIM_SPEED, Le16(v.icon_anim_speed)),
                         OFF_EYECATCH_TYPE, Le16(v.eyecatch_type))
        lens == Memcpy(Memcpy(counts, OFF_CRC, Le16(0)), OFF_DATA_LEN, Le32(v.data_len))
        hdr == Memcpy(lens, OFF_ICON_PAL, WordsToBytes(v.icon_pal))
        icons == Memcpy(hdr, SIZEOF_VMU_HDR, Region(v.icon_data, 0, ICON_SIZE * v.icon_cnt))
        eyecatch == Memcpy(icons, SIZEOF_VMU_HDR + ICON_SIZE * v.icon_cnt,
                           Region(v.eyecatch_data, 0, ec_size))
        payload == Memcpy(eyecatch, SIZEOF_VMU_HDR + ICON_SIZE * v.icon_cnt + ec_size,
                          Region(v.data, 0, v.data_len))
    IN Memcpy(payload, OFF_CRC, Le16(vmu_pkg_crc(payload, out_size)))

\* vmu_pkg_parse, line 121, without the eyecatch.
ParseHdrSizeNoEyecatch(icon_size, ec_size) == SIZEOF_VMU_HDR + icon_size

\* vmu_pkg_parse, line 121: hdr_size.
ParseHdrSize(icon_size, ec_size) == SIZEOF_VMU_HDR + icon_size + ec_size

\* vmu_pkg_parse, line 130, left out.
RestoreCrcSkipped(data, crc_save) == data

\* vmu_pkg_parse, line 130: hdr->crc = crc_save.
RestoreCrc(data, crc_save) == Memcpy(data, OFF_CRC, Le16(crc_save))

\* vmu_pkg_parse, lines 137-152: the caller's pkg filled in from data.  The
\* pointers of pkg are offsets into data.
ParseFill(p, data, icon_size, hdr_size) ==
    [p EXCEPT
       !.icon_cnt = Get16(data, OFF_ICON_CNT),
       !.icon_anim_speed = Get16(data, OFF_ICON_ANIM_SPEED),
       !.eyecatch_type = Get16(data, OFF_EYECATCH_TYPE),
       !.data_len = Get32(data, OFF_DATA_LEN),
       !.icon_pal = BytesToWords(Region(data, OFF_ICON_PAL, 2 * PAL_ENTRIES)),
       !.icon_data = SIZEOF_VMU_HDR,
       !.eyecatch_data = SIZEOF_VMU_HDR + icon_size,
       !.data = hdr_size,
       !.desc_short = Memcpy(Memcpy(@, 0, Region(data, OFF_DESC_SHORT, HDR_DESC_SHORT)),
                             HDR_DESC_SHORT, <<0>>),
       !.desc_long = Memcpy(Memcpy(@, 0, Region(data, OFF_DESC_LONG, HDR_DESC_LONG)),
                            HDR_DESC_LONG, <<0>>),
       !.app_id = Memcpy(Memcpy(@, 0, Region(data, OFF_APP_ID, HDR_APP_ID)),
                         HDR_APP_ID, <<0>>)]

(***************************************************************************)
(* A caller of the codec: it builds a package from a logical view, the     *)
(* stored bytes may be tampered with, and the bytes are parsed back.       *)
(***************************************************************************)
VARIABLES
    src,            \* the vmu_pkg_t given to vmu_pkg_build
    out,            \* the bytes at *dst, then the data given to vmu_pkg_parse
    dst_size,       \* *dst_size
    build_ret,      \* what vmu_pkg_build returned
    pkg,            \* the caller's vmu_pkg_t filled in by vmu_pkg_parse
    parse_ret,      \* what vmu_pkg_parse returned
    pkg_pc,         \* "start", "built", "failed" or "parsed"
    tamper          \* what was done to the bytes between build and parse

pkgVars == <<src, out, dst_size, build_ret, pkg, parse_ret, pkg_pc, tamper>>

\* Strings of the views: descriptions shorter than their fields, descriptions
\* that fill them, and empty ones.
Texts ==
    { [desc_short |-> <<72, 73>>, desc_long |-> <<76, 79, 78, 71>>,
       app_id |-> <<75, 79, 83>>],
      [desc_short |-> SubSeq([i \in 1..HDR_DESC_SHORT |-> 64 + i], 1, HDR_DESC_SHORT),
       desc_long |-> SubSeq([i \in 1..HDR_DESC_LONG |-> 32 + i], 1, HDR_DESC_LONG),
       app_id |-> SubSeq([i \in 1..(HDR_APP_ID - 1) |-> 96 + i], 1, HDR_APP_ID - 1)],
      [desc_short |-> <<>>, desc_long |-> <<>>, app_id |-> <<>>] }

\* Eyecatch types no package has.
BadEyecatchTypes == {4, 65535}

\* Contents of the binary regions of a view.
IconData(cnt) == SubSeq([i \in 1..(ICON_SIZE * cnt) |-> (3 * i) % 256], 1, ICON_SIZE * cnt)
EyecatchData(type) ==
    IF vmu_eyecatch_size(type) < 0 THEN <<>>
    ELSE SubSeq([i \in 1..vmu_eyecatch_size(type) |-> (5 * i + 1) % 256],
                1, vmu_eyecatch_size(type))
Palette == SubSeq([i \in 1..PAL_ENTRIES |-> 4369 * (i - 1)], 1, PAL_ENTRIES)
Payload(len) == SubSeq([i \in 1..len |-> i], 1, len)

\* The vmu_pkg_t a caller fills in.
View(text, cnt, speed, type, len) ==
    [desc_short |-> text.desc_short, desc_long |-> text.desc_long, app_id |-> text.app_id,
     icon_cnt |-> cnt, icon_anim_speed |-> speed, eyecatch_type |-> type,
     data_len |-> len, icon_pal |-> Palette, icon_data |-> IconData(cnt),
     eyecatch_data |-> EyecatchData(type), data |-> Payload(len)]

\* The views built: every text, icon count and payload length without an
\* eyecatch, and one view for each other eyecatch type, recognized or not.
Views ==
    {View(text, cnt, 7, VMUPKG_EC_NONE, len) :
         text \in Texts, cnt \in 0..MaxIcons, len \in 0..MaxData}
    \cup
    {View([desc_short |-> <<72, 73>>, desc_long |-> <<76, 79, 78, 71>>,
           app_id |-> <<75, 79, 83>>], 1, 300, type, 1) :
         type \in {VMUPKG_EC_16BIT, VMUPKG_EC_256COL, VMUPKG_EC_16COL} \cup BadEyecatchTypes}

NoView == [eyecatch_type |-> VMUPKG_EC_NONE]

\* A vmu_pkg_t whose every byte is g: what the caller's pkg holds before
\* vmu_pkg_parse writes to it.
RawPkg(g) ==
    [desc_short |-> [i \in 1..PKG_DESC_SHORT |-> g],
     desc_long |-> [i \in 1..PKG_DESC_LONG |-> g],
     app_id |-> [i \in 1..PKG_APP_ID |-> g],
     icon_cnt |-> g, icon_anim_speed |-> g, eyecatch_type |-> g, data_len |-> g,
     icon_pal |-> [i \in 1..PAL_ENTRIES |-> g],
     icon_data |-> g, eyecatch_data |-> g, data |-> g]

PkgInit ==
    /\ src = NoView
    /\ out = <<>>
    /\ dst_size = 0
    /\ build_ret = 0
    /\ \E g \in Garbage : pkg = RawPkg(g)
    /\ parse_ret = 0
    /\ pkg_pc = "start"
    /\ tamper = "none"

\* vmu_pkg_build(&v, &out, &dst_size).
vmu_pkg_build(v) ==
    /\ pkg_pc = "start"
    /\ src' = v
    /\ \E ec_size \in {vmu_eyecatch_size(v.eyecatch_type)} :
         IF ec_size < 0
         THEN /\ build_ret' = 0 - 1
              /\ pkg_pc' = "failed"
              /\ UNCHANGED <<out, dst_size>>
         ELSE /\ out' = BuildBytes(v, ec_size)
              /\ dst_size' = SIZEOF_VMU_HDR + ICON_SIZE * v.icon_cnt + v.data_len + ec_size
              /\ build_ret' = 0
              /\ pkg_pc' = "built"
    /\ UNCHANGED <<pkg, parse_ret, tamper>>
    /\ UNCHANGED contVars

\* Byte i of the payload of the built package is replaced by b.
CorruptPayload(i, b) ==
    /\ pkg_pc = "built" /\ tamper = "none"
    /\ i \in 1..src.data_len
    /\ b # out[dst_size - src.data_len + i]
    /\ out' = [out EXCEPT ![dst_size - src.data_len + i] = b]
    /\ tamper' = "payload"
    /\ UNCHANGED <<src, dst_size, build_ret, pkg, parse_ret, pkg_pc>>
    /\ UNCHANGED contVars

\* The CRC vmu_pkg_parse computes for data.
ScannedCrc(data) ==
    vmu_pkg_crc(Memcpy(data, OFF_CRC, Le16(0)),
                Get32(data, OFF_DATA_LEN)
                + ParseHdrSize(ICON_SIZE * Get16(data, OFF_ICON_CNT),
                               vmu_eyecatch_size(Get16(data, OFF_EYECATCH_TYPE))))

\* The eyecatch type of the built package is replaced by a type no package
\* has; the CRC field is left as it is or made to fit.
ForgeEyecatchType(type, fit) ==
    /\ pkg_pc = "built" /\ tamper = "none"
    /\ \E forged \in {Memcpy(out, OFF_EYECATCH_TYPE, Le16(type))} :
         out' = IF fit THEN Memcpy(forged, OFF_CRC, Le16(ScannedCrc(forged))) ELSE forged
    /\ tamper' = "header"
    /\ UNCHANGED <<src, dst_size, build_ret, pkg, parse_ret, pkg_pc>>
    /\ UNCHANGED contVars

\* vmu_pkg_parse(out, &pkg), for data that holds the bytes it scans.
vmu_pkg_parse ==
    /\ pkg_pc = "built"
    /\ \E icon_size \in {ICON_SIZE * Get16(out, OFF_ICON_CNT)},
          ec_size \in {vmu_eyecatch_size(Get16(out, OFF_EYECATCH_TYPE))} :
       \E hdr_size \in {ParseHdrSize(icon_size, ec_size)} :
       \E total_size \in {Get32(out, OFF_DATA_LEN) + hdr_size},
          crc_save \in {Get16(out, OFF_CRC)},
          zeroed \in {Memcpy(out, OFF_CRC, Le16(0))} :
         /\ total_size <= Len(out)
         /\ \E crc \in {vmu_pkg_crc(zeroed, total_size)} :
              /\ out' = RestoreCrc(zeroed, crc_save)
              /\ IF crc_save # crc
                 THEN parse_ret' = 0 - 1 /\ pkg' = pkg
                 ELSE parse_ret' = 0 /\ pkg' = ParseFill(pkg, out', icon_size, hdr_size)
    /\ pkg_pc' = "parsed"
    /\ UNCHANGED <<src, dst_size, build_ret, tamper>>
    /\ UNCHANGED contVars

PkgNext ==
    \/ \E v \in Views : vmu_pkg_build(v)
    \/ \E i \in 1..MaxData, b \in 0..255 : CorruptPayload(i, b)
    \/ \E type \in BadEyecatchTypes, fit \in BOOLEAN : ForgeEyecatchType(type, fit)
    \/ vmu_pkg_parse

(***************************************************************************)
(* The driver as a whole.                                                  *)
(***************************************************************************)
\* The steps of the driver when cont_btn_callback is called by the threads of
\* C with sinks of S, its allocations succeeding as F says, cont_shutdown is
\* called by the threads of CS, and each attached device d of D answers with
\* the responses R[d].
ContNext(C, CS, S, F, D, R) ==
    \/ \E t \in C, addr \in InstallAddrs, btns \in InstallBtns,
          cb \in S \cup {NULL}, malloc_ok \in F, worker_ok \in F :
            cont_btn_callback(t, addr, btns, cb, malloc_ok, worker_ok)
            /\ UNCHANGED pkgVars
    \/ \E t \in C : InsLock(t) /\ UNCHANGED pkgVars
    \/ \E t \in C : InsInsert(t) /\ UNCHANGED pkgVars
    \/ \E t \in CS : cont_shutdown(t) /\ UNCHANGED pkgVars
    \/ \E t \in C \cup CS : DelLock(t) /\ UNCHANGED pkgVars
    \/ \E t \in C \cup CS : DelStep(t) /\ UNCHANGED pkgVars
    \/ \E t \in C \cup CS : DelJoin(t) /\ UNCHANGED pkgVars
    \/ \E t \in C \cup CS : DelUnlock(t) /\ UNCHANGED pkgVars
    \/ \E t \in C \cup CS : Return(t) /\ UNCHANGED pkgVars
    \/ \E id \in RegIds : WorkerRun(id) /\ UNCHANGED pkgVars
    \/ \E id \in RegIds : WorkerDone(id) /\ UNCHANGED pkgVars
    \/ \E id \in RegIds : WorkerExit(id) /\ UNCHANGED pkgVars
    \/ \E d \in D : \E resp \in R[d] : cont_reply(d, resp) /\ UNCHANGED pkgVars
    \/ cont_periodic(D) /\ UNCHANGED pkgVars

vars == <<contVars, pkgVars>>

Init == ContInit /\ PkgInit

\* One application thread whose allocations succeed; the device at 32 gives
\* every response, the device at 96 answers with both buttons pressed.
Next ==
    ContNext({1}, {1}, {"cbA"}, {TRUE}, Devices,
             [d \in Devices |-> IF d = <<0, 0>> THEN Responses
                                ELSE {r \in CondResponses : r.raw = AllPressed}])

Spec == Init /\ [][Next]_vars

\* An application thread installing and uninstalling both sinks, with
\* allocations that may fail, while a second thread shuts the driver down; one
\* device, which answers with both buttons pressed.
NextReg ==
    ContNext({1}, {2}, Sinks, BOOLEAN, {<<0, 0>>},
             [d \in Devices |-> {r \in CondResponses : r.raw = AllPressed}])

SpecReg == Init /\ [][NextReg]_vars

\* Raw condition records with the extreme and the middle values of every field.
WideRawConds ==
    { [buttons |-> b, rtrig |-> t[1], ltrig |-> t[2],
       joyx |-> a[1], joyy |-> a[2], joy2x |-> a[3], joy2y |-> a[4]] :
          b \in {0, 1, 21845, 32768, 65534, 65535},
          t \in {<<0, 255>>, <<255, 1>>},
          a \in {<<0, 127, 128, 255>>, <<255, 128, 127, 0>>, <<128, 1, 254, 129>>} }

WideResponses ==
    [response : {MAPLE_RESPONSE_DATATRF}, func : {MAPLE_FUNC_CONTROLLER},
     has_dev : {TRUE}, raw : WideRawConds]
    \cup (Responses \ CondResponses)

\* Polling alone: both devices are polled, the device at 32 answers with any
\* response, the device at 96 with the responses of the smaller set; no
\* callback is ever installed.
NextPoll ==
    \/ \E d \in Devices :
         \E resp \in (IF d = <<0, 0>> THEN WideResponses ELSE Responses) :
            cont_reply(d, resp) /\ UNCHANGED pkgVars
    \/ cont_periodic(Devices) /\ UNCHANGED pkgVars

SpecPoll == Init /\ [][NextPoll]_vars

\* Every worker thread gets the processor: a worker that can take its next
\* step (start its routine, return from a sink that returns, leave its loop)
\* takes it.
WorkerFairness ==
    \A id \in RegIds :
        /\ WF_vars(WorkerRun(id) /\ UNCHANGED pkgVars)
        /\ WF_vars(WorkerDone(id) /\ UNCHANGED pkgVars)
        /\ WF_vars(WorkerExit(id) /\ UNCHANGED pkgVars)

\* One application thread that installs, uninstalls and shuts down, one device
\* that answers with both buttons pressed, sinks that return, and workers
\* scheduled fairly.
NextWake ==
    ContNext({1}, {1}, {"cbA"}, {TRUE}, {<<0, 0>>},
             [d \in Devices |-> {r \in CondResponses : r.raw = AllPressed}])

SpecWake == Init /\ [][NextWake]_vars /\ WorkerFairness

\* One application thread that installs the re-entrant sink for button 0 of
\* the device at 32, uninstalls it and shuts the driver down, while the sink,
\* when it runs, installs or uninstalls a sink for button 0 of any device.
NextReentrant ==
    \/ \E cb \in {ReentrantSink, NULL} :
          cont_btn_callback(1, 32, 1, cb, TRUE, TRUE) /\ UNCHANGED pkgVars
    \/ \E id \in RegIds, cb \in {"cbA", NULL} : SinkCall(id, cb) /\ UNCHANGED pkgVars
    \/ cont_shutdown(1) /\ UNCHANGED pkgVars
    \/ \E t \in Threads : InsLock(t) /\ UNCHANGED pkgVars
    \/ \E t \in Threads : InsInsert(t) /\ UNCHANGED pkgVars
    \/ \E t \in Threads : DelLock(t) /\ UNCHANGED pkgVars
    \/ \E t \in Threads : DelStep(t) /\ UNCHANGED pkgVars
    \/ \E t \in Threads : DelJoin(t) /\ UNCHANGED pkgVars
    \/ \E t \in Threads : DelUnlock(t) /\ UNCHANGED pkgVars
    \/ Return(1) /\ UNCHANGED pkgVars
    \/ \E id \in RegIds : WorkerRun(id) /\ UNCHANGED pkgVars
    \/ \E id \in RegIds : WorkerDone(id) /\ UNCHANGED pkgVars
    \/ \E id \in RegIds : WorkerExit(id) /\ UNCHANGED pkgVars
    \/ \E resp \in {r \in CondResponses : r.raw = AllPressed} :
          cont_reply(<<0, 0>>, resp) /\ UNCHANGED pkgVars
    \/ cont_periodic({<<0, 0>>}) /\ UNCHANGED pkgVars

\* Every thread gets the processor: a thread inside a call takes its next
\* step when it can, a thread waiting for the mutex gets it if the mutex
\* keeps becoming free, and a running re-entrant sink makes its call.
ThreadFairness ==
    /\ \A t \in Threads :
        /\ SF_vars(InsLock(t) /\ UNCHANGED pkgVars)
        /\ SF_vars(DelLock(t) /\ UNCHANGED pkgVars)
        /\ WF_vars(InsInsert(t) /\ UNCHANGED pkgVars)
        /\ WF_vars(DelStep(t) /\ UNCHANGED pkgVars)
        /\ WF_vars(DelJoin(t) /\ UNCHANGED pkgVars)
        /\ WF_vars(DelUnlock(t) /\ UNCHANGED pkgVars)
    /\ \A id \in RegIds :
        WF_vars((\E cb \in {"cbA", NULL} : SinkCall(id, cb)) /\ UNCHANGED pkgVars)

SpecReentrant ==
    Init /\ [][NextReentrant]_vars /\ WorkerFairness /\ ThreadFairness

\* The codec on its own: every view is built, tampered with or not, and parsed.
SpecPkg == Init /\ [][PkgNext]_vars

(***************************************************************************)
(* Properties of the callback registry and of the dispatch.                *)
(***************************************************************************)
DevA == <<0, 0>>
DevB == <<1, 0>>

\* C1: whenever a worker invokes its sink, the sink receives the pair the
\* most recent matching scan recorded in the registration: the address of the
\* device that matched and that device's full button state.
C1_SinkGetsRecordedPair ==
    [][\A id \in RegIds :
         (workers[id].pending /\ WorkerRun(id)) => sink_args'[id] = <<regs[id].cur_addr, regs[id].cur_btns>>]_vars

\* C2: a well-formed condition response of the device at address A with
\* decoded buttons B, whose scan gets the registry lock, signals the worker of
\* a listed registration (addr, mask), recording (A, B) in it, if and only if
\* (addr = 0 or addr = A) and (B AND mask) = mask; any other listed
\* registration and its worker are left as they were.
C2_SignaledIffMatch ==
    [][\A d \in Devices, resp \in CondResponses :
         (btn_cbs_mtx = 0 /\ frame_locked[d] /\ ~frame_locked'[d] /\ cont_reply(d, resp)) =>
            \A i \in 1..Len(btn_cbs) :
               LET id == btn_cbs[i]
                   A == DevAddr(d)
                   B == status'[d].buttons
               IN  IF (regs[id].addr = 0 \/ regs[id].addr = A)
                      /\ BitAnd(B, regs[id].btns) = regs[id].btns
                   THEN /\ workers'[id].pending
                        /\ regs'[id].cur_addr = A
                        /\ regs'[id].cur_btns = B
                   ELSE /\ workers'[id] = workers[id]
                        /\ regs'[id] = regs[id]]_vars

\* A wildcard registration signaled by the device at address 96 while a
\* registration for address 32, though its mask is satisfied, was never
\* signaled by anything.
C2_Witness ==
    \E i, j \in 1..Len(btn_cbs) :
        /\ regs[btn_cbs[i]].addr = 0
        /\ regs[btn_cbs[i]].cur_addr = 96
        /\ workers[btn_cbs[i]].pending
        /\ regs[btn_cbs[j]].addr = 32
        /\ regs[btn_cbs[j]].cur_addr \in Garbage
        /\ BitAnd(status[DevB].buttons, regs[btn_cbs[j]].btns) = regs[btn_cbs[j]].btns

\* C3: a response that arrives while a thread owns the registry lock leaves
\* the list, every registration, every worker and the lock itself untouched,
\* and the callback returns within its own step.
C3_ReplyNeverWaits ==
    [][\A d \in Devices :
         \A resp \in Responses :
              (btn_cbs_mtx # 0 /\ frame_locked[d] /\ ~frame_locked'[d] /\ cont_reply(d, resp)) =>
                 UNCHANGED <<btn_cbs, btn_cbs_mtx, regs, workers, pc, del_snap>>]_vars

\* A listed wildcard registration for button 0 still holds the pair (32, 1)
\* of an earlier scan although the device at 32 has since published buttons
\* 0 and 1: the scan of that later response was skipped.
C3_Witness ==
    \E i \in 1..Len(btn_cbs) :
        /\ regs[btn_cbs[i]].addr = 0
        /\ regs[btn_cbs[i]].btns = 1
        /\ regs[btn_cbs[i]].cur_addr = 32
        /\ regs[btn_cbs[i]].cur_btns = 1
        /\ status[DevA].buttons = 3
        /\ btn_cbs_mtx # 0

\* The uninstall of thread t has visited the whole list and is about to
\* unlock and return.
DelFinished(t) == pc[t] = "del_loop" /\ idx[t] > Len(btn_cbs)

SamePair(p, e) == p.addr = e.addr /\ p.btns = e.btns

\* C4: when install(addr, mask, NULL) has run, the list holds exactly the
\* registrations it found whose (address, mask) differs from (addr, mask), in
\* their order and with their workers alive; every registration with that
\* pair, whatever its sink, is unlinked, its worker destroyed and its memory
\* freed.
C4_NullSinkRemovesPair ==
    \A t \in Callers :
        (DelFinished(t) /\ ~params[t].null) =>
            /\ params[t].cb = NULL
            /\ LET Other(e) == ~SamePair(params[t], e)
                   kept == SelectSeq(del_snap, Other)
               IN  /\ Len(btn_cbs) = Len(kept)
                   /\ \A i \in 1..Len(kept) : btn_cbs[i] = kept[i].id
            /\ \A i \in 1..Len(del_snap) :
                 LET e == del_snap[i] IN
                   IF SamePair(params[t], e)
                   THEN regs[e.id] = Freed /\ workers[e.id].state = "destroyed"
                   ELSE /\ regs[e.id].state = "live"
                        /\ regs[e.id].cb = e.cb
                        /\ workers[e.id].state \in {"waiting", "running"}
                        /\ ~workers[e.id].quit

\* An uninstall for address 0 has removed the wildcard registration and kept
\* the registration of the same mask for address 32.
C4_Witness ==
    \E t \in Callers :
        /\ DelFinished(t)
        /\ ~params[t].null
        /\ params[t].addr = 0
        /\ Len(del_snap) = 2
        /\ Len(btn_cbs) = 1
        /\ regs[btn_cbs[1]].addr = 32
        /\ regs[btn_cbs[1]].btns = params[t].btns

\* C5: when uninstall_all has run and no other call is in progress, the list
\* is empty and every registration ever created is freed, its worker
\* destroyed, and no freed registration is linked.
C5_UninstallAllLeavesNothing ==
    \A t \in Callers :
        (/\ DelFinished(t)
         /\ params[t].null
         /\ \A u \in Callers \ {t} : pc[u] \in {"idle", "done"}) =>
            /\ btn_cbs = <<>>
            /\ \A id \in RegIds :
                 /\ id < next_id => regs[id] = Freed /\ workers[id].state = "destroyed"
                 /\ id >= next_id => regs[id] = NoReg /\ workers[id] = NoWorker

\* uninstall_all has destroyed two registrations it found in the list.
C5_Witness ==
    \E t \in Callers :
        /\ DelFinished(t)
        /\ params[t].null
        /\ \A u \in Callers \ {t} : pc[u] \in {"idle", "done"}
        /\ Len(del_snap) = 2
        /\ btn_cbs = <<>>

\* C6: an install with a sink whose worker cannot be created returns failure
\* and leaves the list, every registration and every worker as they were.
C6_FailedInstallLeavesList ==
    [][\A t \in Callers, addr \in InstallAddrs, btns \in InstallBtns, cb \in Sinks :
         (pc[t] = "idle" /\ pc'[t] # "idle"
            /\ cont_btn_callback(t, addr, btns, cb, TRUE, FALSE)) =>
            /\ pc'[t] = "done"
            /\ RetVal(ret'[t]) = 0 - 1
            /\ UNCHANGED <<btn_cbs, regs, workers, next_id>>]_vars

\* An install has just failed for want of a worker while a registration is
\* listed.
C6_Witness ==
    \E t \in Callers :
        /\ pc[t] = "done"
        /\ ret[t] = "eworker"
        /\ Len(btn_cbs) >= 1
(***************************************************************************)
(* Properties of the package codec.                                        *)
(***************************************************************************)
\* The package was built, left alone and parsed.
RoundTripDone == pkg_pc = "parsed" /\ tamper = "none"

\* str padded on the right with spaces to width characters.
Pad(str, width) == str \o [i \in 1..(width - Len(str)) |-> 32]

\* Parsing succeeded and every field but the descriptions is the one built from.
OtherFieldsSame ==
    /\ parse_ret = 0
    /\ CStr(pkg.app_id) = src.app_id
    /\ pkg.icon_cnt = src.icon_cnt
    /\ pkg.icon_anim_speed = src.icon_anim_speed
    /\ pkg.eyecatch_type = src.eyecatch_type
    /\ pkg.data_len = src.data_len
    /\ pkg.icon_pal = src.icon_pal
    /\ Region(out, pkg.icon_data, ICON_SIZE * src.icon_cnt) = src.icon_data
    /\ Region(out, pkg.eyecatch_data, vmu_eyecatch_size(src.eyecatch_type))
         = src.eyecatch_data
    /\ Region(out, pkg.data, src.data_len) = src.data

\* C7 as stated: parsing what was built from a valid view succeeds and gives
\* back every field of the view exactly, the descriptions included, also when
\* they are shorter than their fields.
C7_RoundTripExact ==
    RoundTripDone =>
        /\ OtherFieldsSame
        /\ CStr(pkg.desc_short) = src.desc_short
        /\ CStr(pkg.desc_long) = src.desc_long

\* C7 amended: parsing what was built from a valid view succeeds and gives
\* back exactly the application id, the counts, the eyecatch type, the payload
\* length, the palette, the icon frames, the eyecatch and the payload; each
\* description comes back padded on the right with spaces to the width of
\* its field.
C7_RoundTripPadded ==
    RoundTripDone =>
        /\ OtherFieldsSame
        /\ CStr(pkg.desc_short) = Pad(src.desc_short, HDR_DESC_SHORT)
        /\ CStr(pkg.desc_long) = Pad(src.desc_long, HDR_DESC_LONG)

\* A view with an eyecatch, a payload and descriptions shorter than their
\* fields has made the round trip.
C7_Witness ==
    /\ RoundTripDone
    /\ parse_ret = 0
    /\ src.eyecatch_type = VMUPKG_EC_16BIT
    /\ src.data_len > 0
    /\ Len(src.desc_short) < HDR_DESC_SHORT
    /\ Len(src.desc_long) < HDR_DESC_LONG
    /\ CStr(pkg.desc_short) # src.desc_short

\* C8: once one byte of the payload of a built package has been replaced by
\* a different value, vmu_pkg_parse returns -1, its CRC error.
C8_CorruptPayloadDetected ==
    pkg_pc = "parsed" /\ tamper = "payload" => parse_ret = 0 - 1

\* The last byte of a payload of several bytes was replaced and the parse failed.
C8_Witness ==
    /\ pkg_pc = "parsed" /\ tamper = "payload"
    /\ src.data_len > 1
    /\ out[dst_size] # src.data[src.data_len]
    /\ parse_ret = 0 - 1

\* C9: a step of vmu_pkg_parse leaves every byte of the data as it found it,
\* whether it succeeds or not, and when it returns -1 it leaves the caller's
\* pkg as it found it.
C9_ParseLeavesBuffer ==
    [][pkg_pc = "built" /\ pkg_pc' = "parsed" =>
          /\ out' = out
          /\ (parse_ret' = 0 - 1 => pkg' = pkg)]_vars

\* A parse has failed on data whose CRC field is not zero; the field still
\* holds its value and pkg is what it was.
C9_Witness ==
    /\ pkg_pc = "parsed"
    /\ parse_ret = 0 - 1
    /\ Get16(out, OFF_CRC) # 0
    /\ \E g \in Garbage : pkg = RawPkg(g)

\* C10: vmu_pkg_parse never returns success for data whose eyecatch type is
\* none of the four recognized ones, whatever the CRC field holds.
C10_ParseRejectsUnknownEyecatch ==
    (/\ pkg_pc = "parsed"
     /\ vmu_eyecatch_size(Get16(out, OFF_EYECATCH_TYPE)) < 0)
    => parse_ret # 0

\* The four eyecatch types a package may have.
RecognizedTypes == {VMUPKG_EC_NONE, VMUPKG_EC_16BIT, VMUPKG_EC_256COL, VMUPKG_EC_16COL}

\* C11: a call of vmu_pkg_build with a view whose eyecatch type is none of the
\* four recognized ones returns -1 and writes neither *dst (no buffer is
\* allocated) nor *dst_size.
C11_BuildRejectsUnknownEyecatch ==
    [][(/\ pkg_pc = "start" /\ pkg_pc' # "start"
        /\ src'.eyecatch_type \notin RecognizedTypes)
       => /\ build_ret' = 0 - 1
          /\ out' = out
          /\ dst_size' = dst_size]_vars

\* vmu_pkg_build has been called with eyecatch type 65535 and has failed.
C11_Witness ==
    /\ pkg_pc = "failed"
    /\ src.eyecatch_type = 65535
    /\ build_ret = 0 - 1
    /\ out = <<>>

\* The size of the eyecatch region as C12 states it.
StatedEyecatchSize(type) ==
    CASE type = VMUPKG_EC_NONE -> 0
      [] type = VMUPKG_EC_16BIT -> 8064
      [] type = VMUPKG_EC_256COL -> 4616
      [] type = VMUPKG_EC_16COL -> 4528

\* The size of the eyecatch region in the packages vmu_pkg_build makes.
BuiltEyecatchSize(type) ==
    CASE type = VMUPKG_EC_NONE -> 0
      [] type = VMUPKG_EC_16BIT -> 8064
      [] type = VMUPKG_EC_256COL -> 4544
      [] type = VMUPKG_EC_16COL -> 2048

\* The package just built is n bytes long, *dst_size says so, and the payload
\* is its last data_len bytes.
BuiltSizeIs(n) ==
    /\ dst_size = n
    /\ Len(out) = n
    /\ Region(out, n - src.data_len, src.data_len) = src.data

\* C12 as stated: the size vmu_pkg_build reports is 128 + 512 * icon_cnt + E +
\* data_len with E = 0, 8064, 4616, 4528 for the types none, 16-bit, 256-color,
\* 16-color, and the payload starts data_len bytes before that.
C12_SizeAsStated ==
    pkg_pc = "built" /\ tamper = "none" =>
        BuiltSizeIs(128 + 512 * src.icon_cnt + StatedEyecatchSize(src.eyecatch_type)
                    + src.data_len)

\* C12 amended: the same with E = 0, 8064, 4544, 2048.
C12_SizeAsBuilt ==
    pkg_pc = "built" /\ tamper = "none" =>
        BuiltSizeIs(128 + 512 * src.icon_cnt + BuiltEyecatchSize(src.eyecatch_type)
                    + src.data_len)

\* A package with one icon, a 16-color eyecatch and one byte of payload is
\* 128 + 512 + 2048 + 1 bytes long.
C12_Witness ==
    /\ pkg_pc = "built" /\ tamper = "none"
    /\ src.eyecatch_type = VMUPKG_EC_16COL
    /\ src.icon_cnt = 1 /\ src.data_len = 1
    /\ dst_size = 2689

(***************************************************************************)
(* Properties of the polling and of the published state.                   *)
(***************************************************************************)
\* Bit k of the non-negative integer v.
Bit(v, k) == (v \div (2 ^ k)) % 2

\* st is the normalized form of the raw record: every one of the 16 button
\* bits inverted and nothing above them, axes moved from 0..255 to -128..127,
\* triggers as they are.
Decoded(st, raw) ==
    /\ st.buttons \in 0..65535
    /\ \A k \in 0..15 : Bit(st.buttons, k) = 1 - Bit(raw.buttons, k)
    /\ st.joyx = raw.joyx - 128 /\ st.joyx \in (0 - 128)..127
    /\ st.joyy = raw.joyy - 128 /\ st.joyy \in (0 - 128)..127
    /\ st.joy2x = raw.joy2x - 128 /\ st.joy2x \in (0 - 128)..127
    /\ st.joy2y = raw.joy2y - 128 /\ st.joy2y \in (0 - 128)..127
    /\ st.ltrig = raw.ltrig
    /\ st.rtrig = raw.rtrig

\* C13: after cont_reply has handled a condition response, the state
\* published for the device is the normalized form of the raw record of the
\* response.
C13_DecodeNormalizes ==
    [][\A d \in Devices : \A resp \in WideResponses \cup Responses :
         (/\ queued'[d] < queued[d]
          /\ resp.response = MAPLE_RESPONSE_DATATRF
          /\ resp.func = MAPLE_FUNC_CONTROLLER
          /\ resp.has_dev
          /\ cont_reply(d, resp))
         => Decoded(status'[d], resp.raw)]_vars

\* The record with buttons 0x5555, triggers 255 and 0, axes 0, 127, 128, 255 has
\* been published as buttons 0xaaaa, axes -128, -1, 0, 127.
C13_Witness ==
    /\ status_valid[DevA]
    /\ status[DevA] = [buttons |-> 43690, ltrig |-> 255, rtrig |-> 0,
                       joyx |-> 0 - 128, joyy |-> 0 - 1, joy2x |-> 0, joy2y |-> 127]

\* C15: no device ever has more than one GETCOND frame queued; a frame is
\* queued for a device only in a step that takes the lock of its frame; and a
\* tick that finds the frame of a device locked queues nothing for it and
\* leaves everything of that device as it is.
C15_OneRequestInFlight ==
    [][\A d \in Devices :
         /\ queued'[d] <= 1
         /\ (queued'[d] > queued[d] => ~frame_locked[d] /\ frame_locked'[d])
         /\ (frame_locked[d] /\ cont_periodic(Devices) =>
               /\ queued'[d] = queued[d]
               /\ frame_locked'[d]
               /\ status'[d] = status[d]
               /\ status_valid'[d] = status_valid[d])]_vars

\* The device at 32 has answered and is being polled again while the request
\* of the device at 96, which never answered, is still the only one queued
\* for it.
C15_Witness ==
    /\ status_valid[DevA] /\ frame_locked[DevA] /\ queued[DevA] = 1
    /\ ~status_valid[DevB] /\ frame_locked[DevB] /\ queued[DevB] = 1

(***************************************************************************)
(* Properties of the order and of the integrity of the list.               *)
(***************************************************************************)
\* C14: in the list every registration with a non-zero address comes before
\* every registration with address 0; of two registrations with non-zero
\* addresses the one installed later comes first, of two with address 0 the one
\* installed later comes last.  (Registrations are numbered in the order of
\* their installation.)
C14_SpecificBeforeWildcard ==
    \A i, j \in 1..Len(btn_cbs) :
        i < j =>
          /\ (regs[btn_cbs[i]].addr = 0 => regs[btn_cbs[j]].addr = 0)
          /\ (regs[btn_cbs[i]].addr # 0 /\ regs[btn_cbs[j]].addr # 0
                => btn_cbs[i] > btn_cbs[j])
          /\ (regs[btn_cbs[i]].addr = 0 /\ regs[btn_cbs[j]].addr = 0
                => btn_cbs[i] < btn_cbs[j])

\* A registration for address 32 installed after one for address 0 is ahead of it.
C14_Witness ==
    /\ btn_cbs = <<2, 1>>
    /\ regs[1].addr = 0
    /\ regs[2].addr = 32

(***************************************************************************)
(* Properties of the handling of responses.                                *)
(***************************************************************************)
\* C16: a response that is not a condition response (another response code,
\* another function code, no device on the frame) unlocks the frame of the
\* device and does nothing else: published state, validity flag, list,
\* registrations and workers stay as they are.
C16_ForeignResponseOnlyUnlocks ==
    [][\A d \in Devices : \A resp \in Responses \ CondResponses :
         (queued'[d] < queued[d] /\ cont_reply(d, resp)) =>
            /\ ~frame_locked'[d]
            /\ UNCHANGED <<status, status_valid, btn_cbs, btn_cbs_mtx, regs, workers,
                           sink_args, pc, params>>]_vars

\* With a registration in the list, the device at 32 has been polled together
\* with the device at 96 and its frame is unlocked again, yet nothing was ever
\* published for it: what it answered was no condition response.
C16_Witness ==
    /\ Len(btn_cbs) > 0
    /\ status_valid[DevB]
    /\ ~frame_locked[DevA] /\ queued[DevA] = 0
    /\ ~status_valid[DevA]
    /\ status[DevA].buttons = 0

\* C17: the validity flag of a device is clear at first, is set by every
\* condition response for the device, together with the normalized state,
\* whether the mutex lets the scan run or not, is set by nothing else and is
\* never cleared.
C17_ValidIffDecoded ==
    /\ \A d \in Devices : ~status_valid[d]
    /\ [][\A d \in Devices :
            /\ status_valid[d] => status_valid'[d]
            /\ (status_valid'[d] /\ ~status_valid[d])
                 => \E resp \in CondResponses : cont_reply(d, resp)
            /\ \A resp \in CondResponses :
                 (queued'[d] < queued[d] /\ cont_reply(d, resp))
                   => status_valid'[d] /\ Decoded(status'[d], resp.raw)]_vars

\* While a thread holds the mutex, the first condition response of the device
\* at 32 has been published with button 0 pressed; the registration for that
\* button, still in the list, was not signaled.
C17_Witness ==
    /\ btn_cbs_mtx # 0
    /\ status_valid[DevA] /\ ~status_valid[DevB]
    /\ status[DevA].buttons = 1
    /\ \E id \in RegIds :
         /\ InList(id)
         /\ regs[id].addr = 32 /\ regs[id].btns = 1
         /\ regs[id].cur_btns \in Garbage
         /\ ~workers[id].pending

(***************************************************************************)
(* Integrity of the list under concurrency.                                *)
(***************************************************************************)
\* The worker of registration id is there and has not been asked to quit.
WorkerAlive(id) ==
    /\ workers[id].state \in {"waiting", "running"}
    /\ ~workers[id].quit

\* This step unlinks registration id, destroys its worker or frees it.
Removes(id) ==
    \/ InList(id) /\ ~(\E i \in 1..Len(btn_cbs') : btn_cbs'[i] = id)
    \/ ~workers[id].quit /\ workers'[id].quit
    \/ workers[id].state # "destroyed" /\ workers'[id].state = "destroyed"
    \/ regs[id] # Freed /\ regs'[id] = Freed

\* This step is a scan recording a match in registration id or waking its worker.
Signals(id) ==
    \/ ~workers[id].pending /\ workers'[id].pending
    \/ /\ Live(id) /\ regs'[id].state = "live"
       /\ <<regs'[id].cur_addr, regs'[id].cur_btns>> #
              <<regs[id].cur_addr, regs[id].cur_btns>>

\* C20: every registration in the list is allocated and has a worker of its
\* own that is alive; a registration is unlinked, its worker destroyed and its
\* memory freed only by the thread that holds the mutex in
\* cont_btn_callback_del; the scan signals only while nobody else holds the
\* mutex, and only registrations of the list, never a freed one or one whose
\* worker was destroyed.
C20_ListedRegsStayLive ==
    /\ [](\A i \in 1..Len(btn_cbs) :
            /\ Live(btn_cbs[i]) /\ WorkerAlive(btn_cbs[i])
            /\ \A j \in 1..Len(btn_cbs) : i # j => btn_cbs[i] # btn_cbs[j])
    /\ [][\A id \in RegIds :
            /\ Removes(id) =>
                 /\ btn_cbs_mtx \in Callers /\ btn_cbs_mtx' = btn_cbs_mtx
                 /\ pc[btn_cbs_mtx] \in {"del_loop", "del_join"}
            /\ Signals(id) =>
                 /\ btn_cbs_mtx = 0
                 /\ InList(id) /\ Live(id) /\ WorkerAlive(id)]_vars

\* A thread holds the mutex and waits in thd_worker_destroy for the worker of
\* a registration it has unlinked, whose sink is running, while the other
\* registration, signaled by an earlier scan, is still in the list.
C20_Witness ==
    \E t \in Callers :
        /\ btn_cbs_mtx = t /\ pc[t] = "del_join"
        /\ Live(victim[t]) /\ ~InList(victim[t])
        /\ workers[victim[t]].state = "running" /\ workers[victim[t]].quit
        /\ Len(btn_cbs) = 1
        /\ workers[btn_cbs[1]].pending /\ WorkerAlive(btn_cbs[1])

(***************************************************************************)
(* From the signal to the invocation of the sink.                          *)
(***************************************************************************)
\* This step invokes the sink of registration id.
Invokes(id) == workers[id].state # "running" /\ workers'[id].state = "running"

\* C19: with workers scheduled fairly, a wake-up pending for a registration
\* is consumed by an invocation of its sink unless the registration is
\* uninstalled; every invocation consumes a pending wake-up, and a wake-up
\* becomes pending only by a scan of a condition response that matches the
\* registration, so the sink runs at most once per signaled match and never
\* without one.
C19_SignalLeadsToSink ==
    /\ \A id \in RegIds :
         workers[id].pending ~> (~workers[id].pending \/ workers[id].quit)
    /\ [][\A id \in RegIds :
            /\ Invokes(id) => workers[id].pending /\ ~workers'[id].pending
            /\ (workers[id].pending /\ ~workers'[id].pending) => Invokes(id)
            /\ (~workers[id].pending /\ workers'[id].pending) =>
                 /\ InList(id)
                 /\ \E d \in Devices : \E resp \in CondResponses :
                      /\ cont_reply(d, resp)
                      /\ ScanMatch(regs[id], DevAddr(d), Cooked(resp.raw).buttons)]_vars

\* A second match has been signaled while the sink is still running for the
\* first one.
C19_Witness ==
    \E id \in RegIds :
        /\ InList(id) /\ WorkerAlive(id)
        /\ workers[id].state = "running" /\ workers[id].pending
        /\ btn_cbs_mtx = 0


(***************************************************************************)
(* Termination of the calls.                                               *)
(***************************************************************************)
\* Thread t is inside cont_btn_callback or cont_shutdown.
InCall(t) == pc[t] \in {"ins_lock", "ins_insert", "del_lock", "del_loop", "del_join"}

\* C18: with threads and workers scheduled fairly, every call of
\* cont_btn_callback and of cont_shutdown, made by an application thread or
\* by a sink, returns, and it returns with every worker it asked to quit
\* joined and destroyed.
C18_CallsReturn ==
    /\ \A t \in Threads : InCall(t) ~> (pc[t] = "done")
    /\ [][\A t \in Threads :
            (InCall(t) /\ pc'[t] = "done") =>
                \A id \in RegIds : workers'[id].quit => workers'[id].state = "destroyed"]_vars

=============================================================================
